---- MODULE Spec2Model ----
(***************************************************************************)
(* Model of check_packages.py: a batch linter that reads the portage       *)
(* override files (package.accept_keywords, package.license, package.use)  *)
(* and reports stale entries against the installed-package database        *)
(* (vartree) and the ebuild repository (porttree).                         *)
(*                                                                         *)
(* Strings are sequences of one-character strings.  Characters are ordered *)
(* by code point through Alphabet.                                         *)
(***************************************************************************)
EXTENDS Integers, Sequences, FiniteSets, TLC

(* ---------------------------------------------------------------------- *)
(* Bounds                                                                  *)
(* ---------------------------------------------------------------------- *)
MaxArgs == 2

MaxLines == 2

(* ---------------------------------------------------------------------- *)
(* Characters and strings                                                  *)
(* ---------------------------------------------------------------------- *)
\* the characters used, in increasing code-point order
Alphabet ==
  << "\n", " ", "#", "*", "+", "-", "0", "1", "2", "=", ">",
     "a", "b", "c", "d", "p", "x", "~" >>

Ord(c) == CHOOSE i \in 1..Len(Alphabet) : Alphabet[i] = c

Whitespace == {"\n", " "}

Digits == {"0", "1", "2"}

RECURSIVE str_le(_, _)
\* operator.le on two str values: lexicographic by code point
str_le(s, t) ==
  IF s = <<>> THEN TRUE
  ELSE IF t = <<>> THEN FALSE
  ELSE IF Head(s) = Head(t) THEN str_le(Tail(s), Tail(t))
  ELSE Ord(Head(s)) < Ord(Head(t))

RECURSIVE lstrip(_)
lstrip(s) ==
  IF s # <<>> /\ Head(s) \in Whitespace THEN lstrip(Tail(s)) ELSE s

RECURSIVE rstrip(_)
rstrip(s) ==
  IF s # <<>> /\ s[Len(s)] \in Whitespace
  THEN rstrip(SubSeq(s, 1, Len(s) - 1))
  ELSE s

\* str.strip()
strip(s) == rstrip(lstrip(s))

\* str.startswith for a set of one-character prefixes
startswith(s, prefix) == s # <<>> /\ Head(s) \in prefix

RECURSIVE split_from(_, _, _)
\* str.split(): cut on runs of whitespace, drop empty pieces
split_from(s, cur, acc) ==
  IF s = <<>>
  THEN IF cur = <<>> THEN acc ELSE Append(acc, cur)
  ELSE IF Head(s) \in Whitespace
       THEN split_from(Tail(s), <<>>,
                       IF cur = <<>> THEN acc ELSE Append(acc, cur))
       ELSE split_from(Tail(s), Append(cur, Head(s)), acc)

split(s) == split_from(s, <<>>, <<>>)

(* ---------------------------------------------------------------------- *)
(* Helpers of check_packages.py                                            *)
(* ---------------------------------------------------------------------- *)
\* _is_sorted with comparator operator.le: every adjacent pair is ordered
_is_sorted(seq) ==
  \A i \in 1..(Len(seq) - 1) : str_le(seq[i], seq[i + 1])

\* _strip_use_flag: drop ONE leading character when it is in prefix
_strip_use_flag(use_flag, prefix) ==
  IF startswith(use_flag, prefix) THEN Tail(use_flag) ELSE use_flag

\* a prefix of the sort-order check that strips both signs
SortPrefix_both == {"+", "-"}

\* a default prefix that strips "+" only
DefaultPrefix_plus == {"+"}

\* prefix=("+", "-"), the default of _strip_use_flag
DefaultPrefix == {"+", "-"}

\* prefix="+", the argument of the sort-order check
SortPrefix == {"+"}

\* portage.settings["ARCH"]
ARCH == << "x" >>

\* _portage_unstable_arch
_portage_unstable_arch == << "~" >> \o ARCH

\* the literal ["**"] of check_keywords
Wildcard == << "*", "*" >>

\* portage.versions.cpv_getversion(atom) is not None: the atom ends in
\* "-<version>", a hyphen followed by a digit
HasVersion(atom) ==
  \E i \in 1..(Len(atom) - 1) : atom[i] = "-" /\ atom[i + 1] \in Digits

(* ---------------------------------------------------------------------- *)
(* Command line (argparse)                                                 *)
(* ---------------------------------------------------------------------- *)
Checkers == {"keywords", "licenses", "use_flags"}

Dests == Checkers \cup {"sort_order"}

Flags == {"-k", "-K", "-l", "-L", "-s", "-S", "-u", "-U"}

\* dest= of each option; the options of one dest form one mutually
\* exclusive group
DestOf(flag) ==
  CASE flag \in {"-k", "-K"} -> "keywords"
    [] flag \in {"-l", "-L"} -> "licenses"
    [] flag \in {"-s", "-S"} -> "sort_order"
    [] flag \in {"-u", "-U"} -> "use_flags"

\* action="store_true" stores TRUE, action="store_false" stores FALSE
ConstOf(flag) == flag \in {"-K", "-L", "-S", "-U"}

\* parser.set_defaults(...): DEFAULT_CHECK_* are all True
Defaults == [d \in Dests |-> TRUE]

\* the other options of the option's mutually exclusive group
GroupConflicts(flag) == {g \in Flags : DestOf(g) = DestOf(flag) /\ g # flag}

\* argparse consumes one option: the option is recorded as seen; when another
\* option of its group was seen before, parser.error() is raised (exit
\* status 2); otherwise the store_true / store_false action runs
take_action_lastwins(st, flag) ==
  [st EXCEPT !.seen = @ \cup {flag}, !.ns[DestOf(flag)] = ConstOf(flag)]

take_action(st, flag) ==
  IF st.error THEN st
  ELSE IF GroupConflicts(flag) \cap st.seen # {}
       THEN [st EXCEPT !.seen = @ \cup {flag}, !.error = TRUE]
       ELSE [st EXCEPT !.seen = @ \cup {flag},
                       !.ns[DestOf(flag)] = ConstOf(flag)]

RECURSIVE consume_args(_, _)
consume_args(st, args) ==
  IF args = <<>> THEN st
  ELSE consume_args(take_action(st, Head(args)), Tail(args))

\* _parse_args
_parse_args(args) ==
  consume_args([ns |-> Defaults, seen |-> {}, error |-> FALSE], args)

(* ---------------------------------------------------------------------- *)
(* Package databases (portage)                                             *)
(* ---------------------------------------------------------------------- *)
P1 == << "p", "-", "1" >>

P2 == << "p", "-", "2" >>

Pkgs == {P1, P2}

\* the packages an atom can match
AtomCandidates(atom) ==
  CASE atom = << "p" >> -> {P1, P2}
    [] atom = << ">", "p", "-", "0" >> -> {P1, P2}
    [] atom = << "=", "p", "-", "1" >> -> {P1}
    [] atom = << "=", "p", "-", "2" >> -> {P2}
    [] OTHER -> {}

RECURSIVE SortedSeq(_)
\* sorted(): ascending by str comparison
SortedSeq(S) ==
  IF S = {} THEN <<>>
  ELSE LET m == CHOOSE x \in S : \A y \in S : str_le(x, y)
       IN  << m >> \o SortedSeq(S \ {m})

\* _portage_vartree_api().match(atom): the installed packages matching the
\* atom, in ascending order
vartree_match(db, atom) == SortedSeq(AtomCandidates(atom) \cap db.installed)

\* the value of porttree for a package that is not in the tree: aux_get raises
\* PortageKeyError
NotInTree == [present |-> FALSE, KEYWORDS |-> <<>>, IUSE |-> <<>>]

InTree(package, db) == db.porttree[package].present

\* _portage_porttree_api().aux_get(package, [field])[0]
aux_get(db, package, field) ==
  IF field = "KEYWORDS" THEN db.porttree[package].KEYWORDS
  ELSE db.porttree[package].IUSE

(* ---------------------------------------------------------------------- *)
(* File system                                                             *)
(* ---------------------------------------------------------------------- *)
\* a node of the file system: kind is "missing", "file", "dir" or "symlink"
\* (a symbolic link to a regular file); lines are the raw lines of a file,
\* entries the direct entries of a directory
Node(name, kind, readable, lines, entries) ==
  [name |-> name, kind |-> kind, readable |-> readable, lines |-> lines,
   entries |-> entries]

RECURSIVE SortedNodes(_)
\* sorted() over paths: ascending by name
SortedNodes(S) ==
  IF S = {} THEN <<>>
  ELSE LET m == CHOOSE x \in S : \A y \in S : str_le(x.name, y.name)
       IN  << m >> \o SortedNodes(S \ {m})

RECURSIVE ReversedNodes(_)
ReversedNodes(S) ==
  IF S = {} THEN <<>>
  ELSE LET m == CHOOSE x \in S : \A y \in S : str_le(y.name, x.name)
       IN  << m >> \o ReversedNodes(S \ {m})

\* a _resolve_path that returns the directory entries unsorted
_resolve_path_unsorted(path) ==
  IF path.kind = "dir"
  THEN ReversedNodes({x \in path.entries : x.kind = "file"})
  ELSE << path >>

\* _resolve_path: the regular non-symlink files of a directory, sorted; any
\* other path (a missing one too) is returned as it is
_resolve_path(path) ==
  IF path.kind = "dir"
  THEN SortedNodes({x \in path.entries : x.kind = "file"})
  ELSE << path >>

\* path.iterdir() raises on a directory that cannot be listed
ResolveFails(path) == path.kind = "dir" /\ ~path.readable

\* open(p) raises for a missing or unreadable file
OpenFails(p) == p.kind = "missing" \/ ~p.readable

\* a _read_path filter that forgets the comment test
YieldsLine_nocomment(line) == line # <<>>

\* _read_path: "if line and not line.startswith('#')" on the stripped line
YieldsLine(line) == line # <<>> /\ ~startswith(line, {"#"})

(* ---------------------------------------------------------------------- *)
(* Diagnostics                                                             *)
(* ---------------------------------------------------------------------- *)
\* one printed line.  checker, fi (file index), li (line index), pi (index
\* of the installed match) and qi (index of the declared qualifier) record
\* where the line was printed from; they are not part of the printed text.
Diag(checker, kind, file_name, atom, highlight, fi, li, pi, qi) ==
  [checker |-> checker, kind |-> kind, file_name |-> file_name,
   atom |-> atom, highlight |-> highlight,
   fi |-> fi, li |-> li, pi |-> pi, qi |-> qi]

\* print("Checking ...")
Header(checker) == Diag(checker, "header", <<>>, <<>>, <<>>, 0, 0, 0, 0)

Range(seq) == {seq[i] : i \in 1..Len(seq)}

RECURSIVE Concat(_)
Concat(seqs) ==
  IF seqs = <<>> THEN <<>> ELSE Head(seqs) \o Concat(Tail(seqs))

(* ---------------------------------------------------------------------- *)
(* The body of each checker's loop, for one line yielded by _read_path     *)
(* ---------------------------------------------------------------------- *)
\* check_keywords, for one installed match `package` (index pi) with the
\* wildcard test reduced to keywords == ["**"]
keywords_of_package_anywildcard(db, file_name, atom, keywords, fi, li, package, pi) ==
  IF ~InTree(package, db)
  THEN << Diag("keywords", "not_available", file_name, atom, <<>>, fi, li, pi, 0) >>
  ELSE LET package_keywords == aux_get(db, package, "KEYWORDS")
           available_keywords == Range(split(package_keywords))
           all == [qi \in 1..Len(keywords) |->
                     Diag("keywords", "keyword", file_name, atom, keywords[qi],
                          fi, li, pi, qi)]
       IN  IF keywords = << Wildcard >>
           THEN <<>>
           ELSE SelectSeq(all, LAMBDA d : d.highlight \notin available_keywords)

\* check_keywords, for one installed match `package` (index pi)
keywords_of_package(db, file_name, atom, keywords, fi, li, package, pi) ==
  IF ~InTree(package, db)
  THEN << Diag("keywords", "not_available", file_name, atom, <<>>, fi, li, pi, 0) >>
  ELSE LET package_keywords == aux_get(db, package, "KEYWORDS")
           available_keywords == Range(split(package_keywords))
           all == [qi \in 1..Len(keywords) |->
                     Diag("keywords", "keyword", file_name, atom, keywords[qi],
                          fi, li, pi, qi)]
       IN  IF keywords = << Wildcard >> /\ package_keywords = <<>>
           THEN <<>>
           ELSE SelectSeq(all, LAMBDA d : d.highlight \notin available_keywords)

\* a check_keywords loop body without the cpv_getversion test
check_keywords_line_noversion(db, file_name, fi, li, line) ==
  LET tokens == split(line)
      atom == tokens[1]
      keywords == IF Len(tokens) > 1 THEN Tail(tokens)
                  ELSE << _portage_unstable_arch >>
      installed_packages == vartree_match(db, atom)
  IN  IF installed_packages = <<>>
      THEN << Diag("keywords", "not_installed", file_name, atom, <<>>, fi, li, 0, 0) >>
      ELSE Concat([pi \in 1..Len(installed_packages) |->
                     keywords_of_package(db, file_name, atom, keywords, fi, li,
                                         installed_packages[pi], pi)])

\* check_keywords: the loop body
check_keywords_line(db, file_name, fi, li, line) ==
  LET tokens == split(line)
      atom == tokens[1]
      keywords == IF Len(tokens) > 1 THEN Tail(tokens)
                  ELSE << _portage_unstable_arch >>
      installed_packages == vartree_match(db, atom)
  IN  IF installed_packages = <<>>
      THEN << Diag("keywords", "not_installed", file_name, atom, <<>>, fi, li, 0, 0) >>
      ELSE IF ~HasVersion(atom)
      THEN <<>>
      ELSE Concat([pi \in 1..Len(installed_packages) |->
                     keywords_of_package(db, file_name, atom, keywords, fi, li,
                                         installed_packages[pi], pi)])

\* a check_licenses loop body with the installation test inverted
check_licenses_line_inverted(db, file_name, fi, li, line) ==
  LET atom == split(line)[1]
      installed_packages == vartree_match(db, atom)
  IN  IF installed_packages # <<>>
      THEN << Diag("licenses", "not_installed", file_name, atom, <<>>, fi, li, 0, 0) >>
      ELSE <<>>

\* check_licenses: the loop body
check_licenses_line(db, file_name, fi, li, line) ==
  LET atom == split(line)[1]
      installed_packages == vartree_match(db, atom)
  IN  IF installed_packages = <<>>
      THEN << Diag("licenses", "not_installed", file_name, atom, <<>>, fi, li, 0, 0) >>
      ELSE <<>>

\* a sort-order check that ignores check_sort_order
sort_order_diags_always(check_sort_order, file_name, atom, use_flags, fi, li) ==
  LET stripped_use_flags ==
        [i \in 1..Len(use_flags) |-> _strip_use_flag(use_flags[i], SortPrefix)]
  IN  IF ~_is_sorted(stripped_use_flags)
      THEN << Diag("use_flags", "unsorted", file_name, atom, <<>>, fi, li, 0, 0) >>
      ELSE <<>>

\* check_use_flags: "if check_sort_order: ..."
sort_order_diags(check_sort_order, file_name, atom, use_flags, fi, li) ==
  LET stripped_use_flags ==
        [i \in 1..Len(use_flags) |-> _strip_use_flag(use_flags[i], SortPrefix)]
  IN  IF check_sort_order /\ ~_is_sorted(stripped_use_flags)
      THEN << Diag("use_flags", "unsorted", file_name, atom, <<>>, fi, li, 0, 0) >>
      ELSE <<>>

\* check_use_flags, for one installed match `package` (index pi)
use_flags_of_package(db, file_name, atom, use_flags, fi, li, package, pi) ==
  IF ~InTree(package, db)
  THEN << Diag("use_flags", "not_available", file_name, atom, <<>>, fi, li, pi, 0) >>
  ELSE LET package_iuse == aux_get(db, package, "IUSE")
           iuse == split(package_iuse)
           available_use_flags ==
             {_strip_use_flag(iuse[i], DefaultPrefix) : i \in 1..Len(iuse)}
           all == [qi \in 1..Len(use_flags) |->
                     Diag("use_flags", "use_flag", file_name, atom,
                          _strip_use_flag(use_flags[qi], DefaultPrefix),
                          fi, li, pi, qi)]
       IN  SelectSeq(all, LAMBDA d : d.highlight \notin available_use_flags)

\* check_use_flags: the loop body
check_use_flags_line(db, check_sort_order, file_name, fi, li, line) ==
  LET tokens == split(line)
      atom == tokens[1]
      use_flags == Tail(tokens)
      installed_packages == vartree_match(db, atom)
  IN  sort_order_diags(check_sort_order, file_name, atom, use_flags, fi, li)
      \o (IF installed_packages = <<>>
          THEN << Diag("use_flags", "not_installed", file_name, atom, <<>>,
                       fi, li, 0, 0) >>
          ELSE Concat([pi \in 1..Len(installed_packages) |->
                         use_flags_of_package(db, file_name, atom, use_flags,
                                              fi, li, installed_packages[pi], pi)]))

\* the database calls one loop body makes: match(atom), then aux_get for
\* every installed match when the body reaches its package loop
line_queries(db, checker, fi, li, line) ==
  LET atom == split(line)[1]
      installed_packages == vartree_match(db, atom)
      looped == /\ checker # "licenses"
                /\ (checker = "keywords" => HasVersion(atom))
  IN  << [api |-> "match", checker |-> checker, fi |-> fi, li |-> li,
          arg |-> atom] >>
      \o (IF looped
          THEN [pi \in 1..Len(installed_packages) |->
                  [api |-> "aux_get", checker |-> checker, fi |-> fi,
                   li |-> li, arg |-> installed_packages[pi]]]
          ELSE <<>>)

(* ---------------------------------------------------------------------- *)
(* Inputs                                                                  *)
(* ---------------------------------------------------------------------- *)
RECURSIVE SeqsUpTo(_, _)
\* the sequences over S of length at most n
SeqsUpTo(S, n) ==
  IF n = 0 THEN { <<>> }
  ELSE LET shorter == SeqsUpTo(S, n - 1)
       IN  shorter \cup {Append(q, x) : q \in shorter, x \in S}

\* raw lines as read from a file
LineBlank == << "\n" >>

LineComment == << " ", "#", "p", "\n" >>

LineUnversioned == << "p", "\n" >>

LineWildcard == << " ", "=", "p", "-", "1", " ", "*", "*", "\n" >>

LineNoKeywords == << "=", "p", "-", "2", "\n" >>

LineUnsorted == << "p", " ", "b", " ", "+", "a", "\n" >>

LineSigned == << "p", " ", "-", "b", " ", "a", " ", "+", "c", " ", "\n" >>

LineTwoKeywords == << ">", "p", "-", "0", " ", "x", " ", "~", "x", "\n" >>

LineCat ==
  { LineBlank, LineComment, LineUnversioned, LineWildcard, LineNoKeywords,
    LineUnsorted, LineSigned, LineTwoKeywords }

\* porttree entries of one package
MetaCat ==
  { NotInTree,
    [present |-> TRUE, KEYWORDS |-> <<>>, IUSE |-> <<>>],
    [present |-> TRUE, KEYWORDS |-> << "x" >>, IUSE |-> << "+", "a", " ", "b" >>],
    [present |-> TRUE, KEYWORDS |-> << "~", "x" >>, IUSE |-> << "-", "b" >>],
    [present |-> TRUE, KEYWORDS |-> << "~", "x", " ", "x" >>, IUSE |-> << "a" >>] }

DefaultMeta ==
  [present |-> TRUE, KEYWORDS |-> << "x" >>, IUSE |-> << "+", "a", " ", "b" >>]

DefaultDb == [installed |-> {P1}, porttree |-> [p \in Pkgs |-> DefaultMeta]]

\* the databases: the tree entry of a package that is not installed is never
\* read, so it is fixed
Dbs ==
  UNION { { [installed |-> I, porttree |-> t] :
              t \in { u \in [Pkgs -> MetaCat] :
                        \A p \in Pkgs \ I : u[p] = DefaultMeta } } :
          I \in { {}, {P1}, {P1, P2} } }

\* nothing installed; one package; two packages whose tree entries differ
SmallDbs ==
  { [installed |-> {}, porttree |-> [p \in Pkgs |-> DefaultMeta]],
    DefaultDb,
    [installed |-> {P1, P2},
     porttree |-> (P1 :> [present |-> TRUE, KEYWORDS |-> << "~", "x" >>,
                          IUSE |-> << "-", "b" >>]
                   @@ P2 :> [present |-> TRUE, KEYWORDS |-> << "x" >>,
                             IUSE |-> << "a" >>])],
    [installed |-> {P1, P2},
     porttree |-> (P1 :> NotInTree
                   @@ P2 :> [present |-> TRUE, KEYWORDS |-> <<>>,
                             IUSE |-> <<>>])] }

FileOf(name, lines) == Node(name, "file", TRUE, lines, {})

Missing(name) == Node(name, "missing", FALSE, <<>>, {})

DefaultLines == << LineUnsorted, LineWildcard >>

\* directory entries: regular files, an unreadable file, a symbolic link and
\* a sub-directory
EntryCat ==
  { FileOf(<< "b" >>, << LineUnsorted >>),
    FileOf(<< "a", "b" >>, << LineNoKeywords, LineComment >>),
    FileOf(<< "a" >>, << LineTwoKeywords >>),
    Node(<< "a", "c" >>, "file", FALSE, << LineUnsorted >>, {}),
    Node(<< "c" >>, "symlink", TRUE, << LineUnsorted >>, {}),
    Node(<< "d" >>, "dir", TRUE, <<>>, {}) }

DirOf(name, readable, entries) == Node(name, "dir", readable, <<>>, entries)

PathNames ==
  [keywords |-> << "k" >>, licenses |-> << "l" >>, use_flags |-> << "u" >>]

(* ---------------------------------------------------------------------- *)
(* State                                                                   *)
(* ---------------------------------------------------------------------- *)
VARIABLES
  argv,         \* sys.argv[1:]
  fs,           \* the node at each checker's path
  db,           \* vartree and porttree
  pc,           \* "parse", a checker's name, "exit" or "done"
  args,         \* the namespace returned by _parse_args
  exit_status,  \* 0, 1 (uncaught exception) or 2 (parser.error)
  active,       \* the current checker's _read_path generator is running
  files,        \* the list returned by _resolve_path
  fi,           \* index in files of the current file
  opened,       \* the current file is open
  li,           \* index of the next line of the current file
  out,          \* standard output
  delivered,    \* the (file, line) pairs yielded by _read_path
  queries       \* the database calls made

vars ==
  << argv, fs, db, pc, args, exit_status, active, files, fi, opened, li, out,
     delivered, queries >>

inputs == << argv, fs, db >>

\* one checker's path: a readable file, a missing path, an unreadable file
PathOf(c, kind) ==
  CASE kind = "file" -> FileOf(PathNames[c], DefaultLines)
    [] kind = "missing" -> Missing(PathNames[c])
    [] OTHER -> Node(PathNames[c], "file", FALSE, DefaultLines, {})

\* every option sequence, against existing, missing and unreadable paths
InitCli ==
  /\ argv \in SeqsUpTo(Flags, MaxArgs)
  /\ \E kinds \in [Checkers -> {"file", "missing", "unreadable"}] :
       /\ Cardinality({c \in Checkers : kinds[c] = "unreadable"}) <= 1
       /\ (\E c \in Checkers : kinds[c] = "unreadable") =>
            (\A c \in Checkers : kinds[c] # "missing")
       /\ fs = [c \in Checkers |-> PathOf(c, kinds[c])]
  /\ db = DefaultDb

\* every file content, the three paths holding the same lines
InitLines ==
  /\ argv \in { <<>>, << "-s" >> }
  /\ \E lines \in SeqsUpTo(LineCat, MaxLines) :
       fs = [c \in Checkers |-> FileOf(PathNames[c], lines)]
  /\ db \in SmallDbs

\* every database, against every one-line file
InitDbs ==
  /\ argv \in { <<>>, << "-s" >> }
  /\ \E line \in LineCat :
       fs = [c \in Checkers |-> FileOf(PathNames[c], << line >>)]
  /\ db \in Dbs

\* directories
InitDirs ==
  /\ argv = <<>>
  /\ \E entries \in SUBSET EntryCat, readable \in BOOLEAN :
       fs = [c \in Checkers |-> DirOf(PathNames[c], readable, entries)]
  /\ db = DefaultDb

Init ==
  /\ (InitCli \/ InitLines \/ InitDbs \/ InitDirs)
  /\ pc = "parse"
  /\ args = Defaults
  /\ exit_status = 0
  /\ active = FALSE
  /\ files = <<>>
  /\ fi = 0
  /\ opened = FALSE
  /\ li = 0
  /\ out = <<>>
  /\ delivered = <<>>
  /\ queries = <<>>

(* ---------------------------------------------------------------------- *)
(* Steps                                                                   *)
(* ---------------------------------------------------------------------- *)
\* the order of the "if args.<checker>" statements of the main block
NextPc(c) ==
  CASE c = "keywords" -> "licenses"
    [] c = "licenses" -> "use_flags"
    [] c = "use_flags" -> "exit"

\* an exception propagates out of the main block: the interpreter prints the
\* traceback and exits with status 1
Raise ==
  /\ pc' = "done"
  /\ exit_status' = 1
  /\ active' = FALSE
  /\ opened' = FALSE

\* args = _parse_args()
ParseArgs ==
  /\ pc = "parse"
  /\ LET st == _parse_args(argv)
     IN  IF st.error
         THEN /\ pc' = "done"
              /\ exit_status' = 2
              /\ args' = args
         ELSE /\ pc' = "keywords"
              /\ exit_status' = exit_status
              /\ args' = st.ns
  /\ UNCHANGED << inputs, active, files, fi, opened, li, out, delivered, queries >>

\* "if args.<checker>:" is false
SkipChecker(c) ==
  /\ pc = c
  /\ ~active
  /\ ~args[c]
  /\ pc' = NextPc(c)
  /\ UNCHANGED << inputs, args, exit_status, active, files, fi, opened, li, out,
                  delivered, queries >>

\* the checker is called: it prints its header and _read_path resolves the
\* path
BeginChecker(c) ==
  /\ pc = c
  /\ ~active
  /\ args[c]
  /\ out' = Append(out, Header(c))
  /\ IF ResolveFails(fs[c])
     THEN /\ Raise
          /\ files' = <<>>
          /\ fi' = 1
          /\ li' = 0
     ELSE /\ active' = TRUE
          /\ files' = _resolve_path(fs[c])
          /\ fi' = 1
          /\ li' = 0
          /\ UNCHANGED << pc, exit_status, opened >>
  /\ UNCHANGED << inputs, args, delivered, queries >>

\* an OpenFile that skips a file it cannot open
OpenFile_skip ==
  /\ active
  /\ ~opened
  /\ fi <= Len(files)
  /\ IF OpenFails(files[fi])
     THEN /\ fi' = fi + 1
          /\ UNCHANGED << pc, exit_status, active, opened, li >>
     ELSE /\ opened' = TRUE
          /\ li' = 1
          /\ UNCHANGED << pc, exit_status, active, fi >>
  /\ UNCHANGED << inputs, args, files, out, delivered, queries >>

\* _read_path: "with open(p) as f:"
OpenFile ==
  /\ active
  /\ ~opened
  /\ fi <= Len(files)
  /\ IF OpenFails(files[fi])
     THEN /\ Raise
          /\ UNCHANGED << fi, li >>
     ELSE /\ opened' = TRUE
          /\ li' = 1
          /\ UNCHANGED << pc, exit_status, active, fi >>
  /\ UNCHANGED << inputs, args, files, out, delivered, queries >>

\* the next raw line of the open file
HasLine == active /\ opened /\ li <= Len(files[fi].lines)

CurLine == strip(files[fi].lines[li])

\* _read_path: a blank or comment line is not yielded
SkipLine ==
  /\ HasLine
  /\ ~YieldsLine(CurLine)
  /\ li' = li + 1
  /\ UNCHANGED << inputs, pc, args, exit_status, active, files, fi, opened, out,
                  delivered, queries >>

\* _read_path yields (f, line) and the loop body of checker c runs
Yield(c, diags) ==
  /\ pc = c
  /\ HasLine
  /\ YieldsLine(CurLine)
  /\ out' = out \o diags
  /\ delivered' = Append(delivered,
                         [checker |-> c, fi |-> fi, li |-> li, line |-> CurLine])
  /\ queries' = queries \o line_queries(db, c, fi, li, CurLine)
  /\ li' = li + 1
  /\ UNCHANGED << inputs, pc, args, exit_status, active, files, fi, opened >>

\* check_keywords: one iteration of "for file, line in _read_path(...)"
CheckKeywordsLine ==
  /\ pc = "keywords"
  /\ Yield("keywords",
           check_keywords_line(db, files[fi].name, fi, li, CurLine))

\* check_licenses: one iteration of the loop
CheckLicensesLine ==
  /\ pc = "licenses"
  /\ Yield("licenses",
           check_licenses_line(db, files[fi].name, fi, li, CurLine))

\* check_use_flags: one iteration of the loop
CheckUseFlagsLine ==
  /\ pc = "use_flags"
  /\ Yield("use_flags",
           check_use_flags_line(db, args.sort_order, files[fi].name, fi, li,
                                CurLine))

\* end of file: the with block closes the file, the next file is taken
CloseFile ==
  /\ active
  /\ opened
  /\ li > Len(files[fi].lines)
  /\ opened' = FALSE
  /\ fi' = fi + 1
  /\ UNCHANGED << inputs, pc, args, exit_status, active, files, li, out,
                  delivered, queries >>

\* _read_path is exhausted: the checker returns
EndChecker(c) ==
  /\ pc = c
  /\ active
  /\ ~opened
  /\ fi > Len(files)
  /\ active' = FALSE
  /\ pc' = NextPc(c)
  /\ UNCHANGED << inputs, args, exit_status, files, fi, opened, li, out,
                  delivered, queries >>

\* the main block ends: exit status 0
Exit ==
  /\ pc = "exit"
  /\ pc' = "done"
  /\ UNCHANGED << inputs, args, exit_status, active, files, fi, opened, li, out,
                  delivered, queries >>

Next ==
  \/ ParseArgs
  \/ \E c \in Checkers : SkipChecker(c)
  \/ \E c \in Checkers : BeginChecker(c)
  \/ OpenFile
  \/ SkipLine
  \/ CheckKeywordsLine
  \/ CheckLicensesLine
  \/ CheckUseFlagsLine
  \/ CloseFile
  \/ \E c \in Checkers : EndChecker(c)
  \/ Exit

Spec == Init /\ [][Next]_vars

(* ---------------------------------------------------------------------- *)
(* Vocabulary of the properties                                            *)
(* ---------------------------------------------------------------------- *)
Count(P(_)) == Cardinality({i \in DOMAIN out : P(out[i])})

Started(c) == \E i \in DOMAIN out : out[i] = Header(c)

\* the checker that raised, when the run ended with a traceback
Raised(c) ==
  /\ pc = "done"
  /\ exit_status = 1
  /\ Started(c)
  /\ \A c2 \in Checkers : Started(c2) =>
       \E i, j \in DOMAIN out : /\ out[i] = Header(c2) /\ out[j] = Header(c)
                                /\ i <= j

\* the checker was called and has returned
Returned(c) == Started(c) /\ pc # c /\ ~Raised(c)

\* the files the checker scans, stated without sorted(): the file at index n
\* is the regular file with n - 1 regular files of smaller name
Regular(c) == {x \in fs[c].entries : x.kind = "file"}

Smaller(c, x) == {y \in Regular(c) : y # x /\ str_le(y.name, x.name)}

NumFiles(c) == IF fs[c].kind = "dir" THEN Cardinality(Regular(c)) ELSE 1

FileAt(c, n) ==
  IF fs[c].kind = "dir"
  THEN CHOOSE x \in Regular(c) : Cardinality(Smaller(c, x)) = n - 1
  ELSE fs[c]

\* the positions (file index, line index) of the checker's input lines
Positions(c) ==
  UNION { { << n, l >> : l \in 1..Len(FileAt(c, n).lines) } :
          n \in 1..NumFiles(c) }

RawAt(c, pos) == FileAt(c, pos[1]).lines[pos[2]]

\* the scan of checker c has gone past the position
Passed(c, pos) ==
  \/ Returned(c)
  \/ /\ (pc = c /\ active) \/ Raised(c)
     /\ \/ pos[1] < fi
        \/ pos[1] = fi /\ opened /\ pos[2] < li

\* a line that is all whitespace, or whose first non-whitespace character
\* is "#"
IsBlank(raw) == \A i \in DOMAIN raw : raw[i] \in Whitespace

IsComment(raw) ==
  \E i \in DOMAIN raw :
    /\ raw[i] = "#"
    /\ \A j \in 1..(i - 1) : raw[j] \in Whitespace

Ignored(raw) == IsBlank(raw) \/ IsComment(raw)

\* t is raw without its leading and trailing whitespace
IsTrimOf(t, raw) ==
  \E i, j \in DOMAIN raw :
    /\ i <= j
    /\ t = SubSeq(raw, i, j)
    /\ raw[i] \notin Whitespace
    /\ raw[j] \notin Whitespace
    /\ \A k \in DOMAIN raw : (k < i \/ k > j) => raw[k] \in Whitespace

\* the entry of a line: its atom and its declared qualifiers
Tokens(c, pos) == split(RawAt(c, pos))

AtomAt(c, pos) == Tokens(c, pos)[1]

QualsAt(c, pos) == Tail(Tokens(c, pos))

MatchAt(c, pos) == vartree_match(db, AtomAt(c, pos))

\* the diagnostic was printed by checker c for the line at pos
At(d, c, pos) == d.checker = c /\ d.fi = pos[1] /\ d.li = pos[2]

\* the entries of checker c whose scan is past and that are not ignored
Entries(c) == {pos \in Positions(c) : Passed(c, pos) /\ ~Ignored(RawAt(c, pos))}

Given(flag) == \E i \in DOMAIN argv : argv[i] = flag

BothGiven(d) == \A flag \in {g \in Flags : DestOf(g) = d} : Given(flag)

\* the last option of dest d on the command line
LastOf(d) ==
  LET last == CHOOSE i \in DOMAIN argv :
                /\ DestOf(argv[i]) = d
                /\ \A j \in DOMAIN argv : DestOf(argv[j]) = d => j <= i
  IN  argv[last]

(* ---------------------------------------------------------------------- *)
(* C1                                                                      *)
(* ---------------------------------------------------------------------- *)
\* C1 as stated: when both forms of a pair are given the last one wins: the
\* run proceeds and the check is enabled iff the last option of the pair is
\* the upper-case form
C1_LastSpecifiedWins ==
  \A d \in Dests :
    (pc # "parse" /\ BothGiven(d)) =>
      /\ exit_status # 2
      /\ args[d] = ConstOf(LastOf(d))

\* C1 amended: when both forms of a pair are given the command line is
\* rejected: exit status 2, nothing is printed and no checker runs; when no
\* pair is given in both forms the run proceeds and each check is enabled iff
\* its pair is absent or given in the upper-case form
C1_PairIsRejected ==
  pc # "parse" =>
    IF \E d \in Dests : BothGiven(d)
    THEN /\ pc = "done"
         /\ exit_status = 2
         /\ out = <<>>
         /\ queries = <<>>
    ELSE /\ exit_status # 2
         /\ \A d \in Dests :
              args[d] = ((\E i \in DOMAIN argv : DestOf(argv[i]) = d)
                           => ConstOf(LastOf(d)))

C1_Witness ==
  /\ pc = "done"
  /\ exit_status = 2
  /\ argv = << "-k", "-K" >>

(* ---------------------------------------------------------------------- *)
(* C2                                                                      *)
(* ---------------------------------------------------------------------- *)
Mismatch == {"not_available", "keyword", "use_flag"}

After(pos2, pos) == pos2[1] > pos[1] \/ (pos2[1] = pos[1] /\ pos2[2] > pos[2])

Delivered(c, pos) ==
  \E i \in DOMAIN delivered :
    /\ delivered[i].checker = c
    /\ delivered[i].fi = pos[1]
    /\ delivered[i].li = pos[2]

\* C2: in each checker, an entry whose atom has no installed match gets
\* exactly one "is no longer installed" line and no repository or
\* keyword/USE-flag mismatch line, and the scan goes on: every later entry is
\* still handed to the checker
C2_NotInstalledIsReportedOnce ==
  \A c \in Checkers : \A pos \in Entries(c) :
    MatchAt(c, pos) = <<>> =>
      /\ Count(LAMBDA d : At(d, c, pos) /\ d.kind = "not_installed") = 1
      /\ Count(LAMBDA d : At(d, c, pos) /\ d.kind \in Mismatch) = 0
      /\ \A pos2 \in Entries(c) : After(pos2, pos) => Delivered(c, pos2)
      /\ Returned(c) =>
           \A pos2 \in Positions(c) :
             (After(pos2, pos) /\ ~Ignored(RawAt(c, pos2))) => Delivered(c, pos2)

C2_Witness ==
  \E c \in Checkers : \E pos \in Entries(c) :
    /\ Returned(c)
    /\ MatchAt(c, pos) = <<>>
    /\ \E pos2 \in Entries(c) : After(pos2, pos) /\ MatchAt(c, pos2) # <<>>

(* ---------------------------------------------------------------------- *)
(* C3                                                                      *)
(* ---------------------------------------------------------------------- *)
\* a declared flag without its leading "+"; a leading "-" stays
WithoutPlus(flag) == IF flag[1] = "+" THEN Tail(flag) ELSE flag

NonDecreasing(flags) ==
  \A i, j \in DOMAIN flags :
    i < j => str_le(WithoutPlus(flags[i]), WithoutPlus(flags[j]))

\* C3: with sort-order checking on, check_use_flags prints "has unsorted USE
\* flags" exactly once for an entry iff its flags, "+" stripped and "-" kept,
\* are not in non-decreasing order, installed or not, and before every other
\* line printed for that entry
C3_UnsortedIffNotNonDecreasing ==
  (args.sort_order /\ pc # "parse") =>
    \A pos \in Entries("use_flags") :
      /\ Count(LAMBDA d : At(d, "use_flags", pos) /\ d.kind = "unsorted")
           = (IF NonDecreasing(QualsAt("use_flags", pos)) THEN 0 ELSE 1)
      /\ \A i, j \in DOMAIN out :
           ( /\ At(out[i], "use_flags", pos)
             /\ At(out[j], "use_flags", pos)
             /\ out[i].kind = "unsorted"
             /\ out[j].kind # "unsorted" ) => i < j

C3_Witness ==
  \E i, j \in DOMAIN out :
    /\ i < j
    /\ out[i].kind = "unsorted"
    /\ out[j].kind = "not_installed"
    /\ out[j].checker = "use_flags"
    /\ out[i].fi = out[j].fi
    /\ out[i].li = out[j].li

(* ---------------------------------------------------------------------- *)
(* C10                                                                     *)
(* ---------------------------------------------------------------------- *)
\* the keywords of an entry: the declared ones, or ~ARCH when none is
DeclaredKeywords(pos) ==
  IF QualsAt("keywords", pos) = <<>>
  THEN << << "~" >> \o ARCH >>
  ELSE QualsAt("keywords", pos)

AcceptedKeywords(package) == Range(split(db.porttree[package].KEYWORDS))

\* what check_keywords prints for an entry with atom `atom`, installed
\* matches `match` and keywords `kws`, by kind, match index and keyword index;
\* none of it depends on the sort-order option
KeywordsExpected(atom, match, kws, kind, m, q) ==
  CASE kind = "not_installed" -> m = 0 /\ q = 0 /\ match = <<>>
    [] kind = "not_available" ->
         /\ m \in DOMAIN match
         /\ q = 0
         /\ HasVersion(atom)
         /\ ~db.porttree[match[m]].present
    [] kind = "keyword" ->
         /\ m \in DOMAIN match
         /\ q \in DOMAIN kws
         /\ HasVersion(atom)
         /\ db.porttree[match[m]].present
         /\ ~(kws = << << "*", "*" >> >> /\ db.porttree[match[m]].KEYWORDS = <<>>)
         /\ kws[q] \notin AcceptedKeywords(match[m])
    [] OTHER -> FALSE

Kinds == {"not_installed", "not_available", "keyword", "unsorted", "use_flag"}

\* C10: "has unsorted USE flags" is printed only by check_use_flags, only
\* when both USE-flag checking and sort-order checking are on; what the
\* keyword and license checkers print is fixed by the files and the
\* databases alone
C10_SortOrderOnlyInUseFlags ==
  /\ \A i \in DOMAIN out :
       out[i].kind = "unsorted" =>
         /\ out[i].checker = "use_flags"
         /\ args.use_flags
         /\ args.sort_order
  /\ \A pos \in Entries("licenses") :
       /\ Count(LAMBDA d : At(d, "licenses", pos))
            = (IF MatchAt("licenses", pos) = <<>> THEN 1 ELSE 0)
       /\ Count(LAMBDA d : At(d, "licenses", pos) /\ d.kind # "not_installed") = 0
  /\ LET entries == Entries("keywords")
     IN  /\ \A pos \in entries :
               LET printed == {i \in DOMAIN out : At(out[i], "keywords", pos)}
                   shape(i) == << out[i].kind, out[i].pi, out[i].qi >>
                   atom == AtomAt("keywords", pos)
                   match == MatchAt("keywords", pos)
                   kws == DeclaredKeywords(pos)
               IN  /\ {shape(i) : i \in printed}
                        = {t \in Kinds \X (0..Len(match)) \X (0..Len(kws)) :
                             KeywordsExpected(atom, match, kws, t[1], t[2], t[3])}
                   /\ \A i, j \in printed : shape(i) = shape(j) => i = j
         /\ \A i \in DOMAIN out :
              (out[i].checker = "keywords" /\ out[i].kind # "header") =>
                << out[i].fi, out[i].li >> \in entries

C10_Witness ==
  /\ pc = "done"
  /\ exit_status = 0
  /\ argv = << "-u", "-S" >>
  /\ \E i \in DOMAIN fs["use_flags"].lines :
       ~NonDecreasing(Tail(split(fs["use_flags"].lines[i])))
  /\ Started("keywords")
  /\ ~Started("use_flags")

(* ---------------------------------------------------------------------- *)
(* C4                                                                      *)
(* ---------------------------------------------------------------------- *)
SameLine(d, e) ==
  d.checker = e.checker /\ d.file_name = e.file_name /\ d.li = e.li

\* files in sorted order, then lines in file order
FileThenLineOrder(d, e) ==
  /\ str_le(d.file_name, e.file_name)
  /\ d.file_name = e.file_name => d.li <= e.li

Diagnostics == {i \in DOMAIN out : out[i].kind # "header"}

\* C4 as stated: diagnostics of one checker come in file order, then line
\* order, and two diagnostics of one line that name a qualifier come in the
\* order the qualifiers are declared, whatever the number of installed
\* matches
C4_QualifierOrderWithinLine ==
  \A i, j \in Diagnostics :
    (i < j /\ out[i].checker = out[j].checker) =>
      /\ FileThenLineOrder(out[i], out[j])
      /\ (SameLine(out[i], out[j]) /\ out[i].qi > 0 /\ out[j].qi > 0) =>
           out[i].qi <= out[j].qi

\* C4 amended: diagnostics of one checker come in file order, then line
\* order, then in the order of the installed matches, and two diagnostics of
\* one line and one installed match that name a qualifier come in the order
\* the qualifiers are declared
C4_QualifierOrderWithinMatch ==
  \A i, j \in Diagnostics :
    (i < j /\ out[i].checker = out[j].checker) =>
      /\ FileThenLineOrder(out[i], out[j])
      /\ SameLine(out[i], out[j]) =>
           /\ out[i].pi <= out[j].pi
           /\ (out[i].pi = out[j].pi /\ out[i].qi > 0 /\ out[j].qi > 0) =>
                out[i].qi <= out[j].qi

C4_Witness ==
  \E i, j \in Diagnostics :
    /\ i < j
    /\ SameLine(out[i], out[j])
    /\ out[i].pi < out[j].pi
    /\ out[i].qi > out[j].qi
    /\ out[j].qi > 0

(* ---------------------------------------------------------------------- *)
(* C5                                                                      *)
(* ---------------------------------------------------------------------- *)
\* C5: in check_keywords, for a versioned installed atom and each installed
\* match found in the repository: nothing is printed for the match when the
\* declared keywords are exactly ** and the repository KEYWORDS is empty;
\* otherwise "no longer requires the <keyword> keyword" is printed once for
\* each declared keyword (~ARCH when none is declared) that is not an
\* accepted keyword of the match, and for no other keyword
C5_KeywordMismatches ==
  \A pos \in Entries("keywords") :
    LET atom == AtomAt("keywords", pos)
        match == MatchAt("keywords", pos)
        kws == DeclaredKeywords(pos)
    IN  HasVersion(atom) =>
          \A m \in DOMAIN match :
            db.porttree[match[m]].present =>
              LET printed == {i \in DOMAIN out :
                                At(out[i], "keywords", pos) /\ out[i].pi = m}
                  missing == {q \in DOMAIN kws :
                                kws[q] \notin AcceptedKeywords(match[m])}
              IN  IF /\ kws = << << "*", "*" >> >>
                     /\ db.porttree[match[m]].KEYWORDS = <<>>
                  THEN printed = {}
                  ELSE /\ \A i \in printed :
                            /\ out[i].kind = "keyword"
                            /\ out[i].qi \in missing
                            /\ out[i].highlight = kws[out[i].qi]
                       /\ \A q \in missing :
                            Cardinality({i \in printed : out[i].qi = q}) = 1

C5_Witness ==
  \E pos \in Entries("keywords") :
    /\ QualsAt("keywords", pos) = << << "*", "*" >> >>
    /\ MatchAt("keywords", pos) = << P1 >>
    /\ db.porttree[P1].present
    /\ db.porttree[P1].KEYWORDS = <<>>
    /\ Returned("keywords")

(* ---------------------------------------------------------------------- *)
(* C6                                                                      *)
(* ---------------------------------------------------------------------- *)
\* C6: in check_keywords, an entry whose atom has no version and has an
\* installed match prints nothing, whatever its keywords and whatever the
\* repository holds
C6_UnversionedAtomIsSilent ==
  \A pos \in Entries("keywords") :
    ( /\ ~HasVersion(AtomAt("keywords", pos))
      /\ MatchAt("keywords", pos) # <<>> ) =>
        Count(LAMBDA d : At(d, "keywords", pos)) = 0

C6_Witness ==
  \E pos \in Entries("keywords") :
    /\ ~HasVersion(AtomAt("keywords", pos))
    /\ QualsAt("keywords", pos) # <<>>
    /\ \E m \in DOMAIN MatchAt("keywords", pos) :
         ~db.porttree[MatchAt("keywords", pos)[m]].present

(* ---------------------------------------------------------------------- *)
(* C7                                                                      *)
(* ---------------------------------------------------------------------- *)
\* a flag without its leading sign
Unsigned(flag) == IF flag[1] \in {"+", "-"} THEN Tail(flag) ELSE flag

IuseNames(package) ==
  {Unsigned(t) : t \in Range(split(db.porttree[package].IUSE))}

\* C7: in check_use_flags, for an installed atom and each installed match
\* found in the repository, "no longer makes use of the <flag> USE flag" is
\* printed for exactly the declared flags whose unsigned name is not an
\* unsigned IUSE name of the match
C7_UseFlagMismatches ==
  \A pos \in Entries("use_flags") :
    LET match == MatchAt("use_flags", pos)
        flags == QualsAt("use_flags", pos)
    IN  \A m \in DOMAIN match :
          db.porttree[match[m]].present =>
            LET printed == {i \in DOMAIN out :
                              At(out[i], "use_flags", pos) /\ out[i].pi = m}
                missing == {q \in DOMAIN flags :
                              Unsigned(flags[q]) \notin IuseNames(match[m])}
            IN  /\ \A i \in printed :
                     /\ out[i].kind = "use_flag"
                     /\ out[i].qi \in missing
                     /\ out[i].highlight = Unsigned(flags[out[i].qi])
                /\ \A q \in missing :
                     Cardinality({i \in printed : out[i].qi = q}) = 1

C7_Witness ==
  \E pos \in Entries("use_flags") :
    LET match == MatchAt("use_flags", pos)
        flags == QualsAt("use_flags", pos)
    IN  /\ match # <<>>
        /\ db.porttree[match[1]].present
        /\ \E q \in DOMAIN flags :
             /\ flags[q] = << "+", "a" >>
             /\ << "a" >> \in Range(split(db.porttree[match[1]].IUSE))
        /\ \E i \in DOMAIN out :
             /\ At(out[i], "use_flags", pos)
             /\ out[i].kind = "use_flag"
             /\ out[i].pi = 1

(* ---------------------------------------------------------------------- *)
(* C8                                                                      *)
(* ---------------------------------------------------------------------- *)
Unreadable(node) == node.kind = "missing" \/ ~node.readable

\* the checker's input cannot be read: the path is missing or unreadable, or
\* it is a directory holding a regular file that cannot be opened
PathFails(c) ==
  \/ Unreadable(fs[c])
  \/ fs[c].kind = "dir" /\ \E x \in Regular(c) : ~x.readable

\* the checkers called before c
Before(c) ==
  CASE c = "keywords" -> {}
    [] c = "licenses" -> {"keywords"}
    [] c = "use_flags" -> {"keywords", "licenses"}

Reaches(c) ==
  /\ pc # "parse"
  /\ exit_status # 2
  /\ args[c]
  /\ \A b \in Before(c) : args[b] => ~PathFails(b)

\* C8: when the input path of an enabled checker is missing or unreadable,
\* the checker never returns: the process ends there with a non-zero exit
\* status, that checker prints nothing for the unreadable file or any file
\* after it, and no later checker is called
C8_PathFailureIsFatal ==
  \A c \in Checkers :
    (Reaches(c) /\ PathFails(c)) =>
      /\ ~Returned(c)
      /\ \A later \in Checkers : c \in Before(later) => ~Started(later)
      /\ pc = "done" => (exit_status = 1 /\ Raised(c))
      /\ \A i \in DOMAIN out :
           (out[i].checker = c /\ out[i].kind # "header") =>
             /\ fs[c].kind = "dir"
             /\ fs[c].readable
             /\ \A x \in Regular(c) :
                  ~x.readable =>
                    (x.name # out[i].file_name /\ str_le(out[i].file_name, x.name))

C8_Witness ==
  /\ Raised("licenses")
  /\ fs["licenses"].kind = "missing"
  /\ args.use_flags
  /\ \E i \in DOMAIN out : out[i].checker = "keywords" /\ out[i].kind # "header"

(* ---------------------------------------------------------------------- *)
(* C9                                                                      *)
(* ---------------------------------------------------------------------- *)
DeliveredAt(c, pos) ==
  {i \in DOMAIN delivered :
     /\ delivered[i].checker = c
     /\ delivered[i].fi = pos[1]
     /\ delivered[i].li = pos[2]}

QueriedAt(c, pos) ==
  {i \in DOMAIN queries :
     /\ queries[i].checker = c
     /\ queries[i].fi = pos[1]
     /\ queries[i].li = pos[2]}

\* C9: a line that is blank after trimming, or whose trimmed text starts with
\* "#", is never handed to a checker, prints nothing and causes no database
\* call; every other line is handed to the checker exactly once, trimmed
C9_BlankAndCommentLinesIgnored ==
  \A c \in Checkers : \A pos \in Positions(c) :
    IF Ignored(RawAt(c, pos))
    THEN /\ DeliveredAt(c, pos) = {}
         /\ QueriedAt(c, pos) = {}
         /\ Count(LAMBDA d : At(d, c, pos)) = 0
    ELSE /\ Cardinality(DeliveredAt(c, pos)) = (IF Passed(c, pos) THEN 1 ELSE 0)
         /\ \A i \in DeliveredAt(c, pos) :
              IsTrimOf(delivered[i].line, RawAt(c, pos))

C9_Witness ==
  \E c \in Checkers : \E pos, pos2 \in Positions(c) :
    /\ Returned(c)
    /\ IsComment(RawAt(c, pos))
    /\ ~Ignored(RawAt(c, pos2))
    /\ RawAt(c, pos2)[1] \in Whitespace
    /\ DeliveredAt(c, pos2) # {}

====
